---- MODULE Spec2Model ----
(***************************************************************************)
(* Model of packages/bff/src/codegen.ts: the generator that turns a        *)
(* FormatResult (a registry of type descriptors keyed by id, plus a tree   *)
(* of API entries) into TypeScript declarations.                           *)
(*                                                                         *)
(* Strings are TLA+ strings built with \o exactly as the template          *)
(* literals build them.  Layout whitespace (the newlines and indentation   *)
(* of the templates, which prettier re-lays anyway) is written as a single *)
(* space.  A thrown exception is a result record with ok = FALSE and the   *)
(* exception's kind in error.                                              *)
(***************************************************************************)
EXTENDS Integers, Sequences, FiniteSets, TLC

VARIABLES formatResult, typeId, fieldType, exportSet, result, previous

vars == <<formatResult, typeId, fieldType, exportSet, result, previous>>

(***************************************************************************)
(* Bounds of the model.                                                    *)
(***************************************************************************)
\* Registries of the general specification have the ids 1..MaxId.
MaxId == 2

\* An id no registry of the model holds.
MissingId == MaxId + 1

(***************************************************************************)
(* Data: FormatType descriptors, fields, API entries.                      *)
(***************************************************************************)
\* A descriptor that carries no display name has name = NoName.
NoName == ""

\* An absent description / deprecated note (falsy in attachComment).
NoText == ""

AtomicTypes == {"Any", "JSON", "String", "Boolean", "Float", "ID", "Int", "Number", "Unknown"}

NoValue == [kind |-> "none", text |-> ""]

Desc(type, name, value, itemTypeId, itemTypeIds, fields) == [type |-> type, name |-> name, value |-> value, itemTypeId |-> itemTypeId, itemTypeIds |-> itemTypeIds, fields |-> fields]

Atomic(type, name) == Desc(type, name, NoValue, 0, <<>>, <<>>)

\* Literal { value }: kind is typeof value, text is the value's `${value}`.
Literal(kind, text) == Desc("Literal", NoName, [kind |-> kind, text |-> text], 0, <<>>, <<>>)

\* Record / Nullable / List { itemTypeId }.
Single(type, name, itemTypeId) == Desc(type, name, NoValue, itemTypeId, <<>>, <<>>)

\* Union / Intersect { itemTypeIds }.
Multi(type, name, itemTypeIds) == Desc(type, name, NoValue, 0, itemTypeIds, <<>>)

\* Object / Struct { fields }.
Named(type, name, fields) == Desc(type, name, NoValue, 0, <<>>, fields)

Field(key, id, description, deprecated) == [key |-> key, typeId |-> id, description |-> description, deprecated |-> deprecated]

\* An API leaf of the entry tree.
Api(input, output, description, deprecated) == [type |-> "Api", input |-> input, output |-> output, description |-> description, deprecated |-> deprecated, entries |-> <<>>]

\* An interior node: entries is the sequence of <<key, child>> in property order.
Entries(children) == [type |-> "Entries", input |-> 0, output |-> 0, description |-> NoText, deprecated |-> NoText, entries |-> children]

(***************************************************************************)
(* Results of a call: a returned string, or a thrown exception.            *)
(***************************************************************************)
Return(text) == [ok |-> TRUE, text |-> text, error |-> ""]

Throw(error) == [ok |-> FALSE, text |-> "", error |-> error]

\* The result of the calls made so far from a map(): the first exception thrown.
RECURSIVE FirstFailure(_, _)
FirstFailure(results, i) ==
    IF i > Len(results) THEN 0
    ELSE IF ~results[i].ok THEN i
    ELSE FirstFailure(results, i + 1)

\* Array.prototype.join over the text of results.
RECURSIVE Join(_, _, _)
Join(texts, sep, i) ==
    IF i > Len(texts) THEN ""
    ELSE IF i = Len(texts) THEN texts[i]
    ELSE texts[i] \o sep \o Join(texts, sep, i + 1)

(***************************************************************************)
(* ./formater: getTypeName and isInlineType.                               *)
(***************************************************************************)
\* The display name of a descriptor, NoName (falsy) when it has none.
getTypeName(formatType) == formatType.name

\* Every kind but Object and Struct is rendered inline.
isInlineType(formatType) == formatType.type \notin {"Object", "Struct"}

(***************************************************************************)
(* codegen.ts                                                              *)
(***************************************************************************)
attachComment(text, options) ==
    IF options.deprecated = NoText /\ options.description = NoText THEN text
    ELSE LET remarks == IF options.description # NoText THEN <<"* @remarks " \o options.description>> ELSE <<>>
             depcreated == IF options.deprecated # NoText THEN <<"* @depcreated " \o options.deprecated>> ELSE <<>>
             list == remarks \o depcreated
         IN  "/** " \o Join(list, " ", 1) \o " */ " \o text

getTypeNameById(id) == "Type" \o ToString(id)

\* The fixed spellings of the atomic kinds (the chain of ifs on fieldType.type).
atomicFieldTypeIdAsNumber(type) ==
    CASE type = "Any" -> "any"
      [] type = "JSON" -> "JsonType"
      [] type = "String" -> "string"
      [] type = "Boolean" -> "boolean"
      [] type = "Float" -> "number"
      [] type = "ID" -> "number"
      [] type = "Int" -> "number"
      [] type = "Number" -> "number"
      [] type = "Unknown" -> "unknown"

atomicFieldType(type) ==
    CASE type = "Any" -> "any"
      [] type = "JSON" -> "JsonType"
      [] type = "String" -> "string"
      [] type = "Boolean" -> "boolean"
      [] type = "Float" -> "number"
      [] type = "ID" -> "string"
      [] type = "Int" -> "number"
      [] type = "Number" -> "number"
      [] type = "Unknown" -> "unknown"

\* getFieldType with the ids of the calls that are active above this one.
\* A call for an id that is already active repeats that call's work and so
\* never returns: the stack overflows (RangeError).  types[typeId] of an id
\* the registry does not hold is undefined, and getTypeName(undefined) throws.
RECURSIVE getFieldTypeRec(_, _, _)

\* The body of getFieldType for a descriptor the registry holds.
renderFieldType(id, types, active) ==
    LET ft == types[id]
        typeName == getTypeName(ft)
        below == active \cup {id}
        item == getFieldTypeRec(ft.itemTypeId, types, below)
        self == getFieldTypeRec(id, types, below)
        items == [i \in 1..Len(ft.itemTypeIds) |-> getFieldTypeRec(ft.itemTypeIds[i], types, below)]
        failed == FirstFailure(items, 1)
        texts == [i \in 1..Len(items) |-> items[i].text]
    IN  IF typeName # NoName THEN Return(typeName)
        ELSE IF ~isInlineType(ft) THEN Return(getTypeNameById(id))
        ELSE CASE ft.type \in AtomicTypes -> Return(atomicFieldType(ft.type))
               [] ft.type = "Record" -> IF self.ok THEN Return("Record<string, " \o self.text \o ">") ELSE self
               [] ft.type = "Literal" -> Return(IF ft.value.kind = "string" THEN "\"" \o ft.value.text \o "\"" ELSE ft.value.text)
               [] ft.type = "Nullable" -> IF item.ok THEN Return(item.text \o " | null | undefined") ELSE item
               [] ft.type = "List" -> IF item.ok THEN Return(item.text \o "[]") ELSE item
               [] ft.type = "Union" -> IF failed = 0 THEN Return(Join(texts, " | ", 1)) ELSE items[failed]
               [] ft.type = "Intersect" -> IF failed = 0 THEN Return(Join(texts, " & ", 1)) ELSE items[failed]
               [] OTHER -> Throw("Unsupported field")

\* As getFieldTypeRec, but an id the registry does not hold renders as a
\* placeholder instead of throwing.
getFieldTypePlaceholder(id, types, active) ==
    IF id \in active THEN Throw("RangeError")
    ELSE IF id \notin DOMAIN types THEN Return("unknown")
    ELSE renderFieldType(id, types, active)

getFieldTypeRec(id, types, active) ==
    IF id \in active THEN Throw("RangeError")
    ELSE IF id \notin DOMAIN types THEN Throw("TypeError")
    ELSE renderFieldType(id, types, active)

getFieldType(id, types) == getFieldTypeRec(id, types, {})

(***************************************************************************)
(* codegen: the declarations of the registry's Object and Struct entries.  *)
(***************************************************************************)
\* A top-level declaration of the source: `type name = text`, exported or not.
Decl(export, name, text) == [export |-> export, name |-> name, text |-> text]

\* The '' handleType returns for an inline type: no declaration.
Blank == Decl(FALSE, "", "")

\* `{ ${fields.join(',')} }`
Braces(fields) == IF Len(fields) = 0 THEN "{ }" ELSE "{ " \o Join(fields, ", ", 1) \o " }"

\* As handleType, but a display name that is already exported is declared
\* again instead of being refused.
handleTypeOverwriting(id, formatType, types, exports) ==
    IF isInlineType(formatType) THEN [ok |-> TRUE, error |-> "", decl |-> Blank, exportSet |-> exports]
    ELSE IF formatType.type \in {"Object", "Struct"} THEN
        LET resolved == [i \in 1..Len(formatType.fields) |-> getFieldType(formatType.fields[i].typeId, types)]
            failed == FirstFailure(resolved, 1)
            fileds == [i \in 1..Len(resolved) |-> attachComment(formatType.fields[i].key \o ": " \o resolved[i].text, formatType.fields[i])]
            typeName == getTypeName(formatType)
        IN  IF failed # 0 THEN [ok |-> FALSE, error |-> resolved[failed].error, decl |-> Blank, exportSet |-> exports]
            ELSE IF typeName # NoName THEN [ok |-> TRUE, error |-> "", decl |-> Decl(TRUE, typeName, Braces(fileds)), exportSet |-> exports \cup {typeName}]
            ELSE [ok |-> TRUE, error |-> "", decl |-> Decl(FALSE, getTypeNameById(id), Braces(fileds)), exportSet |-> exports]
    ELSE [ok |-> FALSE, error |-> "Unsupported type", decl |-> Blank, exportSet |-> exports]

\* handleType with the export set as the call finds it; the result carries
\* the set as the call leaves it.
handleType(id, formatType, types, exports) ==
    IF isInlineType(formatType) THEN [ok |-> TRUE, error |-> "", decl |-> Blank, exportSet |-> exports]
    ELSE IF formatType.type \in {"Object", "Struct"} THEN
        LET resolved == [i \in 1..Len(formatType.fields) |-> getFieldType(formatType.fields[i].typeId, types)]
            failed == FirstFailure(resolved, 1)
            fileds == [i \in 1..Len(resolved) |-> attachComment(formatType.fields[i].key \o ": " \o resolved[i].text, formatType.fields[i])]
            typeName == getTypeName(formatType)
        IN  IF failed # 0 THEN [ok |-> FALSE, error |-> resolved[failed].error, decl |-> Blank, exportSet |-> exports]
            ELSE IF typeName # NoName THEN
                IF typeName \in exports THEN [ok |-> FALSE, error |-> "Duplicate Object Type name", decl |-> Blank, exportSet |-> exports]
                ELSE [ok |-> TRUE, error |-> "", decl |-> Decl(TRUE, typeName, Braces(fileds)), exportSet |-> exports \cup {typeName}]
            ELSE [ok |-> TRUE, error |-> "", decl |-> Decl(FALSE, getTypeNameById(id), Braces(fileds)), exportSet |-> exports]
    ELSE [ok |-> FALSE, error |-> "Unsupported type", decl |-> Blank, exportSet |-> exports]

\* Object.entries of a registry: its integer keys in ascending order.
RECURSIVE ObjectKeys(_)
ObjectKeys(ids) ==
    IF ids = {} THEN <<>>
    ELSE LET least == CHOOSE i \in ids : \A j \in ids : i <= j
         IN  <<least>> \o ObjectKeys(ids \ {least})

\* handleTypes from the i-th entry on: map() calls handleType entry by entry
\* and stops at the first exception.
RECURSIVE handleTypesFrom(_, _, _, _, _)
handleTypesFrom(keys, i, types, exports, done) ==
    IF i > Len(keys) THEN [ok |-> TRUE, error |-> "", definitions |-> done, exportSet |-> exports]
    ELSE LET one == handleType(keys[i], types[keys[i]], types, exports)
         IN  IF ~one.ok THEN [ok |-> FALSE, error |-> one.error, definitions |-> <<>>, exportSet |-> one.exportSet]
             ELSE handleTypesFrom(keys, i + 1, types, one.exportSet, Append(done, one.decl))

handleTypes(types, exports) == handleTypesFrom(ObjectKeys(DOMAIN types), 1, types, exports, <<>>)

(***************************************************************************)
(* codegen: the aggregate type of the entry tree.                          *)
(***************************************************************************)
\* As handleApi, with the input and the output type exchanged.
handleApiSwapped(api, types) ==
    LET inputType == getFieldType(api.input, types)
        outputType == getFieldType(api.output, types)
    IN  IF ~inputType.ok THEN inputType
        ELSE IF ~outputType.ok THEN outputType
        ELSE Return("(input: " \o outputType.text \o ") => Promise<" \o inputType.text \o ">")

handleApi(api, types) ==
    LET inputType == getFieldType(api.input, types)
        outputType == getFieldType(api.output, types)
    IN  IF ~inputType.ok THEN inputType
        ELSE IF ~outputType.ok THEN outputType
        ELSE Return("(input: " \o inputType.text \o ") => Promise<" \o outputType.text \o ">")

RECURSIVE handleEntries(_, _)
handleEntries(node, types) ==
    LET children == node.entries
        rendered == [i \in 1..Len(children) |->
                        IF children[i][2].type = "Api" THEN handleApi(children[i][2], types)
                        ELSE handleEntries(children[i][2], types)]
        failed == FirstFailure(rendered, 1)
        fields == [i \in 1..Len(children) |->
                        IF children[i][2].type = "Api"
                        THEN attachComment(children[i][1] \o ": " \o rendered[i].text, children[i][2])
                        ELSE children[i][1] \o ": " \o rendered[i].text]
    IN  IF failed # 0 THEN rendered[failed] ELSE Return(Braces(fields))

(***************************************************************************)
(* codegen: assembly.                                                      *)
(***************************************************************************)
\* An export set that lives across calls: the set the last call left.
sharedExportSet == exportSet

\* let exportSet = new Set<string>()
newExportSet == {}

hasJsonType(types) == \E id \in DOMAIN types : types[id].type = "JSON"

sourceOfJsonType == Decl(FALSE, "JsonType", "number | string | boolean | null | undefined | JsonType[] | { toJSON(): string } | { [key: string]: JsonType }")

\* The alias once for every JSON entry of the registry.
jsonTypeSourcePerEntry(types) == [i \in 1..Cardinality({id \in DOMAIN types : types[id].type = "JSON"}) |-> sourceOfJsonType]

\* ${hasJsonType ? sourceOfJsonType : ''}
jsonTypeSource(types) == IF hasJsonType(types) THEN <<sourceOfJsonType>> ELSE <<Blank>>

\* prettier.format: the declarations re-laid; text that is only whitespace
\* leaves nothing behind.
prettierFormat(source) == SelectSeq(source, LAMBDA d : d # Blank)

\* One call of codegen: the returned source, or the exception thrown, and the
\* call's export set as the call leaves it.
codegen(fr) ==
    LET definitions == handleTypes(fr.types, newExportSet)
        entries == handleEntries(fr.entries, fr.types)
        source == jsonTypeSource(fr.types) \o definitions.definitions \o <<Decl(TRUE, "__API__", entries.text)>>
    IN  IF ~definitions.ok THEN [ok |-> FALSE, error |-> definitions.error, source |-> <<>>, exportSet |-> definitions.exportSet]
        ELSE IF ~entries.ok THEN [ok |-> FALSE, error |-> entries.error, source |-> <<>>, exportSet |-> definitions.exportSet]
        ELSE [ok |-> TRUE, error |-> "", source |-> prettierFormat(source), exportSet |-> definitions.exportSet]


(***************************************************************************)
(* Inputs: the registries and entry trees the calls are made with.         *)
(***************************************************************************)
\* Descriptors that refer to other entries, clash with other names or fail.
\* Item and field ids are 1, 2 or MissingId.
Referring ==
    {Atomic("JSON", NoName), Atomic("String", NoName)}
    \cup {Single("Record", NoName, 1), Single("List", NoName, 1), Single("List", NoName, MissingId), Single("List", "Foo", 1), Single("Nullable", NoName, 2)}
    \cup {Multi("Union", NoName, <<1, 2>>)}
    \cup {Named("Object", NoName, <<>>), Named("Struct", NoName, <<Field("a", 2, NoText, "old")>>)}
    \cup {Named("Object", "Foo", <<Field("a", 1, NoText, NoText)>>), Named("Struct", "Foo", <<Field("a", 2, "doc", NoText)>>), Named("Object", "Foo", <<Field("a", MissingId, NoText, NoText)>>)}
    \cup {Named("Object", "Type1", <<>>), Named("Object", "JsonType", <<>>), Named("Object", "__API__", <<>>)}

\* Every kind of descriptor: the atomic kinds with and without a display
\* name, a kind getFieldType does not know, literals, composites.
Catalogue ==
    Referring
    \cup {Atomic(t, NoName) : t \in AtomicTypes}
    \cup {Atomic("String", "Foo"), Atomic("JSON", "Foo"), Atomic("Tuple", NoName)}
    \cup {Literal("string", "ok"), Literal("number", "1")}
    \cup {Multi("Intersect", NoName, <<2, 1>>)}

\* The registries with ids 1..n: entry 1 is any descriptor of the catalogue,
\* the others are referring descriptors.
RegistriesOf(n) == {[i \in 1..n |-> IF i = 1 THEN first ELSE rest[i - 1]] : first \in Catalogue, rest \in [1..(n - 1) -> Referring]}

Registries == UNION {RegistriesOf(n) : n \in 1..MaxId}

Trees ==
    { Entries(<< <<"ping", Api(1, 1, NoText, NoText)>> >>),
      Entries(<< <<"ping", Api(1, 2, "doc", "old")>>, <<"admin", Entries(<< <<"stats", Api(2, 1, NoText, NoText)>> >>)>> >>),
      Entries(<< <<"ping", Api(2, MissingId, NoText, NoText)>> >>),
      Entries(<<>>) }

Inputs == [types : Registries, entries : Trees]

\* The inputs of the call sequences: Object and Struct entries that share
\* names across inputs, that clash within one input, or that fail.
CallCatalogue ==
    {Atomic("JSON", NoName)}
    \cup {Named("Object", "Foo", <<Field("a", 1, NoText, NoText)>>), Named("Struct", "Foo", <<>>), Named("Object", "Bar", <<Field("a", MissingId, NoText, NoText)>>)}

CallInputs == [types : [1..MaxId -> CallCatalogue], entries : {Entries(<< <<"ping", Api(1, 2, NoText, NoText)>> >>)}]

\* Registries of nested composites: entries 1 and 2 are the named leaves A
\* and B, entries 3 and 5 are composites over the leaves, entry 4 is a
\* composite over entry 3 and entry 6 a composite over entry 5.
Leaves == {1, 2}

\* The composites that wrap an id of inner, alone or beside an id of others.
Over(others, inner) ==
    {Single(t, NoName, i) : t \in {"List", "Nullable"}, i \in inner}
    \cup {Multi(t, NoName, <<i, j>>) : t \in {"Union", "Intersect"}, i \in inner, j \in others}
    \cup {Multi(t, NoName, <<j, i>>) : t \in {"Union", "Intersect"}, i \in inner, j \in others}

NestingRegistries ==
    {<<Named("Object", "A", <<>>), Named("Object", "B", <<>>), c3, c4, c5, c6>> :
        c3 \in Over({2}, {1}), c4 \in Over(Leaves, {3}), c5 \in Over({2}, {1}), c6 \in Over(Leaves, {5})}

NestingInputs == [types : NestingRegistries, entries : {Entries(<< <<"ping", Api(4, 6, NoText, NoText)>> >>)}]

(***************************************************************************)
(* State machine.                                                          *)
(***************************************************************************)
\* No call of getFieldType / codegen has been made yet.
NotCalled == [ok |-> FALSE, text |-> "", error |-> "not called"]

NoResult == [done |-> FALSE, ok |-> FALSE, error |-> "", source |-> <<>>]

NoPrevious == [done |-> FALSE, input |-> [types |-> <<>>, entries |-> Entries(<<>>)], ok |-> FALSE, error |-> "", source |-> <<>>]

Start(inputs) ==
    /\ formatResult \in inputs
    /\ typeId = 0
    /\ fieldType = NotCalled
    /\ exportSet = {}
    /\ result = NoResult
    /\ previous = NoPrevious

Init == Start(Inputs)

\* getFieldType(id, formatResult.types)
Resolve ==
    \E id \in DOMAIN formatResult.types \cup {MissingId} :
        /\ typeId' = id
        /\ fieldType' = getFieldType(id, formatResult.types)
        /\ UNCHANGED <<formatResult, exportSet, result, previous>>

\* codegen(fr): the call's outcome becomes result, the outcome of the call
\* before it becomes previous, exportSet is the call's export set.
Call(fr) ==
    LET out == codegen(fr)
    IN  /\ formatResult' = fr
        /\ result' = [done |-> TRUE, ok |-> out.ok, error |-> out.error, source |-> out.source]
        /\ exportSet' = out.exportSet
        /\ previous' = IF result.done THEN [done |-> TRUE, input |-> formatResult, ok |-> result.ok, error |-> result.error, source |-> result.source] ELSE previous
        /\ UNCHANGED <<typeId, fieldType>>

\* The first call of codegen.
Generate == ~result.done /\ Call(formatResult)

Next == Resolve \/ Generate

Spec == Init /\ [][Next]_vars

\* Sequences of codegen calls: every call is made with any of the inputs,
\* whatever the calls before it were made with.
InitCalls == Start(CallInputs)

\* A call of codegen with any input, after any calls.
NextCalls == \E fr \in CallInputs : Call(fr)

SpecCalls == InitCalls /\ [][NextCalls]_vars

\* getFieldType over registries of nested composites.
InitNesting == Start(NestingInputs)

SpecNesting == InitNesting /\ [][Next]_vars


(***************************************************************************)
(* Vocabulary of the properties.                                           *)
(***************************************************************************)
Registry == formatResult.types

DuplicateName == "Duplicate Object Type name"

\* An Object or Struct entry that carries a display name.
NamedDeclaration(reg, id) == id \in DOMAIN reg /\ reg[id].type \in {"Object", "Struct"} /\ reg[id].name # NoName

\* Entry j carries the display name of an earlier Object or Struct entry.
Clashes(reg, j) == NamedDeclaration(reg, j) /\ \E i \in DOMAIN reg : i < j /\ NamedDeclaration(reg, i) /\ reg[i].name = reg[j].name

HasClash(reg) == \E j \in DOMAIN reg : Clashes(reg, j)

\* The second of the first two same-named entries, in registry order.
FirstClash(reg) == CHOOSE j \in DOMAIN reg : Clashes(reg, j) /\ \A k \in DOMAIN reg : Clashes(reg, k) => j <= k

\* Resolving some field type of Object/Struct entry k fails.
FieldFails(reg, k) == reg[k].type \in {"Object", "Struct"} /\ \E i \in 1..Len(reg[k].fields) : ~getFieldType(reg[k].fields[i].typeId, reg).ok

\* The type ids an unnamed composite refers to.
ItemsOf(reg, id) ==
    IF reg[id].name # NoName THEN {}
    ELSE IF reg[id].type \in {"Record", "Nullable", "List"} THEN {reg[id].itemTypeId}
    ELSE IF reg[id].type \in {"Union", "Intersect"} THEN {reg[id].itemTypeIds[i] : i \in 1..Len(reg[id].itemTypeIds)}
    ELSE {}

\* The input and output type ids of the endpoints of a tree.
RECURSIVE ApiIds(_)
ApiIds(node) ==
    IF node.type = "Api" THEN {node.input, node.output}
    ELSE UNION {ApiIds(node.entries[i][2]) : i \in 1..Len(node.entries)}

\* The type ids generation starts from: field types and endpoint types.
Roots(fr) ==
    UNION {{fr.types[id].fields[i].typeId : i \in 1..Len(fr.types[id].fields)} : id \in {k \in DOMAIN fr.types : fr.types[k].type \in {"Object", "Struct"}}}
    \cup ApiIds(fr.entries)

RECURSIVE Closure(_, _)
Closure(reg, ids) ==
    LET more == ids \cup UNION {ItemsOf(reg, id) : id \in ids \cap DOMAIN reg}
    IN  IF more = ids THEN ids ELSE Closure(reg, more)

\* Every type id generation refers to.
Reached(fr) == Closure(fr.types, Roots(fr))

\* The names of the declarations of a source.
Declared(source) == {source[i].name : i \in 1..Len(source)}

(***************************************************************************)
(* C1                                                                      *)
(***************************************************************************)
\* C1: for an id whose descriptor is a Record without a display name,
\* getFieldType returns `Record<string, V>` with V the resolution of the
\* descriptor's itemTypeId; it returns whenever resolving itemTypeId returns.
C1_RecordRendersItem ==
    (/\ typeId \in DOMAIN Registry
     /\ Registry[typeId].type = "Record"
     /\ Registry[typeId].name = NoName
     /\ getFieldType(Registry[typeId].itemTypeId, Registry).ok)
    => fieldType = Return("Record<string, " \o getFieldType(Registry[typeId].itemTypeId, Registry).text \o ">")

(***************************************************************************)
(* C2                                                                      *)
(***************************************************************************)
\* C2 as stated: with two same-named Object/Struct entries codegen fails with
\* the duplicate-name error and returns no output.
C2_DuplicateNameError ==
    (result.done /\ HasClash(Registry))
    => (~result.ok /\ result.error = DuplicateName /\ result.source = <<>>)

\* C2 as amended: with two same-named Object/Struct entries codegen fails and
\* returns no output; the failure is the duplicate-name error unless resolving
\* a field type of an Object/Struct entry no later than the second same-named
\* entry fails, and then it is that resolution's error.
C2_DuplicateNamesFail ==
    (result.done /\ HasClash(Registry))
    => /\ ~result.ok
       /\ result.source = <<>>
       /\ IF \E k \in DOMAIN Registry : k <= FirstClash(Registry) /\ FieldFails(Registry, k)
          THEN result.error \in {"TypeError", "RangeError", "Unsupported field"}
          ELSE result.error = DuplicateName

\* C2 witness: a call on a registry with two same-named entries has thrown
\* the duplicate-name error.
C2_Witness == result.done /\ HasClash(Registry) /\ result.error = DuplicateName /\ exportSet # {}

(***************************************************************************)
(* C3                                                                      *)
(***************************************************************************)
\* C3: if a type id generation refers to (a field's typeId, an endpoint's
\* input or output, a member of an unnamed composite among them) is absent
\* from the registry, codegen fails and returns no output.
C3_MissingIdFails ==
    (result.done /\ Reached(formatResult) \ DOMAIN Registry # {})
    => (~result.ok /\ result.source = <<>>)

\* C3 witness: a call whose input refers to an absent id has thrown the
\* lookup error.
C3_Witness == result.done /\ Reached(formatResult) \ DOMAIN Registry # {} /\ result.error = "TypeError"

(***************************************************************************)
(* C4                                                                      *)
(***************************************************************************)
\* The fixed spellings of section 4.2.
Spelling == [Any |-> "any", JSON |-> "JsonType", String |-> "string", Boolean |-> "boolean", Float |-> "number", ID |-> "string", Int |-> "number", Number |-> "number", Unknown |-> "unknown"]

\* C4 as stated: for every entry of atomic kind getFieldType returns the
\* fixed spelling of the kind.
C4_AtomicSpelling ==
    (typeId \in DOMAIN Registry /\ Registry[typeId].type \in AtomicTypes)
    => fieldType = Return(Spelling[Registry[typeId].type])

\* C4 as amended: for every entry of atomic kind without a display name
\* getFieldType returns the fixed spelling of the kind, whatever else the
\* registry holds.
C4_UnnamedAtomicSpelling ==
    (typeId \in DOMAIN Registry /\ Registry[typeId].type \in AtomicTypes /\ Registry[typeId].name = NoName)
    => fieldType = Return(Spelling[Registry[typeId].type])

\* C4 witness: an unnamed ID entry has resolved to `string` in a registry
\* that also holds a failing entry.
C4_Witness ==
    /\ typeId = 1
    /\ Registry[1] = Atomic("ID", NoName)
    /\ fieldType = Return("string")
    /\ Len(Registry) > 1
    /\ Registry[2] = Single("List", NoName, MissingId)

(***************************************************************************)
(* C5                                                                      *)
(***************************************************************************)
\* The number of JsonType alias declarations in the output.
AliasCount == Cardinality({i \in 1..Len(result.source) : result.source[i] = sourceOfJsonType})

JsonEntries == {id \in DOMAIN Registry : Registry[id].type = "JSON"}

\* C5: the output holds the JsonType alias exactly once when some registry
\* entry has kind JSON, however many have, and not at all when none has.
C5_JsonAliasOnce ==
    (result.done /\ result.ok)
    => AliasCount = (IF JsonEntries # {} THEN 1 ELSE 0)

\* C5 witness: a registry with two JSON entries has produced one alias.
C5_Witness == result.done /\ result.ok /\ Cardinality(JsonEntries) >= 2 /\ AliasCount = 1


(***************************************************************************)
(* C6                                                                      *)
(***************************************************************************)
\* The documentation comment of section 4.3: remarks first, deprecation
\* second, nothing when the endpoint carries neither.
Doc(api) ==
    IF api.description = NoText /\ api.deprecated = NoText THEN ""
    ELSE "/** "
         \o (IF api.description # NoText THEN "* @remarks " \o api.description ELSE "")
         \o (IF api.description # NoText /\ api.deprecated # NoText THEN " " ELSE "")
         \o (IF api.deprecated # NoText THEN "* @depcreated " \o api.deprecated ELSE "")
         \o " */ "

\* (input: I) => Promise<O> with I and O the resolutions of the endpoint's ids.
Signature(api, reg) == "(input: " \o getFieldType(api.input, reg).text \o ") => Promise<" \o getFieldType(api.output, reg).text \o ">"

\* The record type that mirrors a namespace: one entry per child key, in
\* order, written from the i-th child on.
RECURSIVE Mirror(_, _, _)
Mirror(node, reg, i) ==
    IF Len(node.entries) = 0 THEN "{ }"
    ELSE (IF i = 1 THEN "{ " ELSE ", ")
         \o (IF node.entries[i][2].type = "Api"
             THEN Doc(node.entries[i][2]) \o node.entries[i][1] \o ": " \o Signature(node.entries[i][2], reg)
             ELSE node.entries[i][1] \o ": " \o Mirror(node.entries[i][2], reg, 1))
         \o (IF i = Len(node.entries) THEN " }" ELSE Mirror(node, reg, i + 1))

ScenarioA == [types |-> <<Atomic("String", NoName)>>, entries |-> Entries(<< <<"ping", Api(1, 1, NoText, NoText)>> >>)]

\* C6: the __API__ type of the output mirrors the entry tree, namespaces as
\* brace-wrapped records with one entry per key in order and endpoints as
\* `(input: I) => Promise<O>`; scenario A yields
\* { ping: (input: string) => Promise<string> } and no JsonType alias.
C6_ApiMirrorsEntries ==
    /\ (result.done /\ result.ok)
       => result.source[Len(result.source)] = Decl(TRUE, "__API__", Mirror(formatResult.entries, Registry, 1))
    /\ (result.done /\ formatResult = ScenarioA)
       => (result.ok /\ result.source = <<Decl(TRUE, "__API__", "{ ping: (input: string) => Promise<string> }")>>)

\* C6 witness: a tree with a documented endpoint and a nested namespace,
\* whose endpoints have different input and output types, has been rendered.
C6_Witness ==
    /\ result.done /\ result.ok
    /\ Len(formatResult.entries.entries) = 2
    /\ formatResult.entries.entries[2][2].type = "Entries"
    /\ getFieldType(1, Registry).text # getFieldType(2, Registry).text

(***************************************************************************)
(* C7                                                                      *)
(***************************************************************************)
\* C7: a call's outcome depends only on its input: a call with the input of
\* the call before it has the same outcome, and a call fails with the
\* duplicate-name error only if its own registry holds two same-named
\* entries, whatever the calls before it exported.
C7_CallsIndependent ==
    /\ (result.done /\ previous.done /\ previous.input = formatResult)
       => (result.ok = previous.ok /\ result.error = previous.error /\ result.source = previous.source)
    /\ (result.done /\ result.error = DuplicateName) => HasClash(Registry)
    /\ result.done => exportSet \subseteq {Registry[id].name : id \in DOMAIN Registry}

\* C7 witness: after a call that exported Foo and then failed, a call with
\* another input that declares Foo has succeeded.
C7_Witness ==
    /\ result.done /\ previous.done
    /\ ~previous.ok
    /\ \E id \in DOMAIN previous.input.types : NamedDeclaration(previous.input.types, id) /\ previous.input.types[id].name = "Foo"
    /\ previous.input # formatResult
    /\ result.ok
    /\ "Foo" \in exportSet

(***************************************************************************)
(* C8                                                                      *)
(***************************************************************************)
\* The name getFieldType returns for an id as a reference: the display name,
\* or Type<id> for an unnamed Object or Struct.
References(reg, id) ==
    IF reg[id].name # NoName THEN {reg[id].name}
    ELSE IF reg[id].type \in {"Object", "Struct"} THEN {getTypeNameById(id)}
    ELSE {}

\* C8: whenever codegen succeeds, every name the resolver returns as a
\* reference is the name of a declaration of the output.
C8_ReferencesDeclared ==
    (result.done /\ result.ok)
    => \A id \in Reached(formatResult) \cap DOMAIN Registry : References(Registry, id) \subseteq Declared(result.source)

(***************************************************************************)
(* C9                                                                      *)
(***************************************************************************)
\* C9: whenever codegen succeeds, no two top-level declarations of the
\* output have the same name.
C9_DeclarationNamesDistinct ==
    (result.done /\ result.ok)
    => \A i, j \in 1..Len(result.source) : i # j => result.source[i].name # result.source[j].name

(***************************************************************************)
(* C10                                                                     *)
(***************************************************************************)
\* The type an id denotes, written with parentheses wherever TypeScript's
\* precedence ([] over & over |) needs them; level is 0 for a name or an
\* array, 1 for an intersection, 2 for a union.  Unions of unions and
\* intersections of intersections are written flat: they denote the same
\* type however they are nested.
RECURSIVE Denoted(_, _)
Denoted(reg, id) ==
    LET ft == reg[id]
        item == Denoted(reg, ft.itemTypeId)
        members == [i \in 1..Len(ft.itemTypeIds) |-> Denoted(reg, ft.itemTypeIds[i])]
        inIntersect == [i \in 1..Len(members) |-> IF members[i].level = 2 THEN "(" \o members[i].text \o ")" ELSE members[i].text]
        inUnion == [i \in 1..Len(members) |-> members[i].text]
    IN  IF ft.name # NoName THEN [level |-> 0, text |-> ft.name]
        ELSE CASE ft.type = "List" -> [level |-> 0, text |-> (IF item.level > 0 THEN "(" \o item.text \o ")" ELSE item.text) \o "[]"]
               [] ft.type = "Nullable" -> [level |-> 2, text |-> item.text \o " | null | undefined"]
               [] ft.type = "Union" -> [level |-> 2, text |-> Join(inUnion, " | ", 1)]
               [] ft.type = "Intersect" -> [level |-> 1, text |-> Join(inIntersect, " & ", 1)]

\* An unnamed composite built from List, Nullable, Union and Intersect.
Composite(reg, id) == id \in DOMAIN reg /\ reg[id].name = NoName /\ reg[id].type \in {"List", "Nullable", "Union", "Intersect"}

\* C10: two unnamed composites over the named leaves that nest List,
\* Nullable, Union and Intersect differently (so that they denote different
\* types) never resolve to the same type expression.
C10_NestingDetermined ==
    (Composite(Registry, typeId) /\ fieldType.ok)
    => \A other \in DOMAIN Registry :
          (Composite(Registry, other) /\ Denoted(Registry, other).text # Denoted(Registry, typeId).text)
          => getFieldType(other, Registry).text # fieldType.text


====
